---- MODULE Spec2Model ----
(***************************************************************************)
(* Model of src/lib/routes/proxy-api/index.ts: the SettingService          *)
(* (get / insert / delete over a SettingStore with an audit EventStore)    *)
(* and the ProxyController (frontend API route table and handlers).        *)
(* Every await of the source is one atomic step of the collaborator that   *)
(* is awaited; the synchronous code between two awaits belongs to the      *)
(* step that resumes it.                                                   *)
(***************************************************************************)
EXTENDS Integers, Sequences, FiniteSets, TLC

\* ---------------------------------------------------------------- bounds
MaxCalls == 2

\* ------------------------------------------------------------ input sets
Keys == {"k1", "k2"}
Values == {"v1", "v2"}
Principals == {"p1", "p2"}

Absent == "<absent>"
NoError == "<none>"
NotFound == "NotFound"
PersistenceFailure == "PersistenceFailure"

CallIds == 1..MaxCalls

VARIABLES
    settingStore,   \* SettingStore rows: key -> value or Absent
    eventStore,     \* EventStore: the events in the order they were stored
    eventCall,      \* for each stored event, the call that stored it
    calls,          \* the SettingService calls: arguments, locals, position
    issued,         \* number of calls issued so far; call c is the c-th issued
    twin,           \* a second run of the same calls with other setting values
    routes,         \* ProxyController route table, built by the constructor
    frontendApiOrigins, \* config.frontendApiOrigins
    middleware,     \* what the constructor installed with this.app.use
    requests        \* per connection: the request being handled and its response

svars == <<settingStore, eventStore, eventCall, calls, issued, twin>>
cvars == <<routes, frontendApiOrigins, middleware>>
gvars == <<routes, frontendApiOrigins, middleware, requests>>
vars == <<settingStore, eventStore, eventCall, calls, issued, twin, routes,
          frontendApiOrigins, middleware, requests>>

\* ------------------------------------------------------------- events
SettingCreatedEvent(createdBy, id) ==
    [type |-> "setting-created", createdBy |-> createdBy, data |-> [id |-> id]]

SettingUpdatedEvent(createdBy, id) ==
    [type |-> "setting-updated", createdBy |-> createdBy, data |-> [id |-> id]]

SettingDeletedEvent(createdBy, id) ==
    [type |-> "setting-deleted", createdBy |-> createdBy, data |-> [id |-> id]]

\* ------------------------------------------------- collaborator stores
SettingStoreExists(store, id) == store[id] # Absent

SettingStoreGet(store, id) == store[id]

SettingStoreInsert(store, id, value) == [store EXCEPT ![id] = value]

\* updateRow on a missing row: the store either changes nothing or upserts
SettingStoreUpdateRow(store, id, value) ==
    IF store[id] # Absent
    THEN {[store EXCEPT ![id] = value]}
    ELSE {store, [store EXCEPT ![id] = value]}

SettingStoreDelete(store, id) == [store EXCEPT ![id] = Absent]

EventStoreStore(events, event) == Append(events, event)

\* ------------------------------------------------------------- calls
Unissued ==
    [op |-> "none", id |-> Absent, value |-> Absent, createdBy |-> Absent,
     pc |-> "unissued", exists |-> Absent, trace |-> <<>>, result |-> Absent,
     error |-> NoError, atIssue |-> Absent, conc |-> {}]

Pending(c) == calls[c].pc \notin {"unissued", "done", "failed"}

\* the calls on key id that are running now
ActiveOn(id) == {d \in CallIds : Pending(d) /\ calls[d].id = id}

\* the record of call c when it is issued, up to its first await
Issue(op, id, value, createdBy, pc) ==
    [Unissued EXCEPT !.op = op, !.id = id, !.value = value,
                     !.createdBy = createdBy, !.pc = pc,
                     !.atIssue = SettingStoreGet(settingStore, id),
                     !.conc = ActiveOn(id)]

\* ------------------------------------------------------- the twin run
\* The twin run is given the calls of the first run in the same order and
\* with the same keys and principals; every setting value in it, the rows the
\* store starts with included, is "v1", whatever the value of the first run.
TwinValue(v) == IF v = Absent THEN Absent ELSE "v1"

\* the twin's call c is issued and waits at pc
TwinIssue(c, pc) == [twin EXCEPT !.pc[c] = pc]

\* the store call the twin's call c awaits rejects
TwinReject(c) == [twin EXCEPT !.pc[c] = "failed"]

\* the store call the twin's call c awaits answers; updateRow of a missing
\* row behaves in the twin's store as it does in the first run's store
TwinStep(c) ==
    LET id == calls[c].id
        value == TwinValue(calls[c].value)
        createdBy == calls[c].createdBy
        at == twin.pc[c]
        updated == SettingStoreUpdateRow(twin.store, id, value)
        same == {s \in updated : (s[id] = Absent) = (settingStore'[id] = Absent)}
    IN  CASE at = "get" ->
                [twin EXCEPT !.pc[c] =
                    IF SettingStoreGet(twin.store, id) = Absent
                    THEN "failed" ELSE "done"]
          [] at = "exists" ->
                [twin EXCEPT !.pc[c] =
                    IF SettingStoreExists(twin.store, id)
                    THEN "updateRow" ELSE "insert"]
          [] at = "updateRow" ->
                [twin EXCEPT
                    !.store = IF same # {} THEN CHOOSE s \in same : TRUE
                              ELSE CHOOSE s \in updated : TRUE,
                    !.pc[c] = "storeUpdated"]
          [] at = "storeUpdated" ->
                [twin EXCEPT
                    !.events = EventStoreStore(@, SettingUpdatedEvent(createdBy, id)),
                    !.pc[c] = "done"]
          [] at = "insert" ->
                [twin EXCEPT !.store = SettingStoreInsert(@, id, value),
                             !.pc[c] = "storeCreated"]
          [] at = "storeCreated" ->
                [twin EXCEPT
                    !.events = EventStoreStore(@, SettingCreatedEvent(createdBy, id)),
                    !.pc[c] = "done"]
          [] at = "delete" ->
                [twin EXCEPT !.store = SettingStoreDelete(@, id),
                             !.pc[c] = "storeDeleted"]
          [] at = "storeDeleted" ->
                [twin EXCEPT
                    !.events = EventStoreStore(@, SettingDeletedEvent(createdBy, id)),
                    !.pc[c] = "done"]
          [] OTHER -> twin

\* get(id): return this.settingStore.get(id), up to the store's answer
GetCall(c, id) ==
    /\ c = issued + 1
    /\ c <= MaxCalls
    /\ issued' = c
    /\ calls' = [calls EXCEPT ![c] = Issue("get", id, Absent, Absent, "get")]
    /\ UNCHANGED <<settingStore, eventStore, eventCall, gvars>>
    /\ twin' = TwinIssue(c, "get")

\* Get that answers undefined for a key that is not there
Get_Undefined(c) ==
    /\ calls[c].pc = "get"
    /\ calls' = [calls EXCEPT
            ![c].trace = Append(@, "get"),
            ![c].pc = "done",
            ![c].result = SettingStoreGet(settingStore, calls[c].id)]
    /\ UNCHANGED <<settingStore, eventStore, eventCall, issued, gvars>>
    /\ twin' = TwinStep(c)

\* settingStore.get(id) answers: the value, or NotFound
Get(c) ==
    /\ calls[c].pc = "get"
    /\ LET v == SettingStoreGet(settingStore, calls[c].id) IN
       calls' = [calls EXCEPT
            ![c].trace = Append(@, "get"),
            ![c].pc = IF v = Absent THEN "failed" ELSE "done",
            ![c].error = IF v = Absent THEN NotFound ELSE NoError,
            ![c].result = v]
    /\ UNCHANGED <<settingStore, eventStore, eventCall, issued, gvars>>
    /\ twin' = TwinStep(c)

\* insert(id, value, createdBy) up to its first await
InsertCall(c, id, value, createdBy) ==
    /\ c = issued + 1
    /\ c <= MaxCalls
    /\ issued' = c
    /\ calls' = [calls EXCEPT ![c] =
            Issue("insert", id, value, createdBy, "exists")]
    /\ UNCHANGED <<settingStore, eventStore, eventCall, gvars>>
    /\ twin' = TwinIssue(c, "exists")

\* InsertExists that takes the else branch whatever exists answered
InsertExists_NeverExists(c) ==
    /\ calls[c].pc = "exists"
    /\ calls' = [calls EXCEPT
            ![c].trace = Append(@, "exists"),
            ![c].exists = SettingStoreExists(settingStore, calls[c].id),
            ![c].pc = "insert"]
    /\ UNCHANGED <<settingStore, eventStore, eventCall, issued, gvars>>
    /\ twin' = TwinStep(c)

\* InsertExists with the branches of the if exchanged
InsertExists_Inverted(c) ==
    /\ calls[c].pc = "exists"
    /\ LET e == SettingStoreExists(settingStore, calls[c].id) IN
       calls' = [calls EXCEPT
            ![c].trace = Append(@, "exists"),
            ![c].exists = e,
            ![c].pc = IF e THEN "insert" ELSE "updateRow"]
    /\ UNCHANGED <<settingStore, eventStore, eventCall, issued, gvars>>
    /\ twin' = TwinStep(c)

\* const exists = await this.settingStore.exists(id); if (exists) ... else ...
InsertExists(c) ==
    /\ calls[c].pc = "exists"
    /\ LET e == SettingStoreExists(settingStore, calls[c].id) IN
       calls' = [calls EXCEPT
            ![c].trace = Append(@, "exists"),
            ![c].exists = e,
            ![c].pc = IF e THEN "updateRow" ELSE "insert"]
    /\ UNCHANGED <<settingStore, eventStore, eventCall, issued, gvars>>
    /\ twin' = TwinStep(c)

\* InsertUpdateRow that passes the stored value back instead of the new one
InsertUpdateRow_OldValue(c) ==
    /\ calls[c].pc = "updateRow"
    /\ settingStore' \in SettingStoreUpdateRow(settingStore, calls[c].id,
            SettingStoreGet(settingStore, calls[c].id))
    /\ calls' = [calls EXCEPT ![c].trace = Append(@, "updateRow"),
                              ![c].pc = "storeUpdated"]
    /\ UNCHANGED <<eventStore, eventCall, issued, gvars>>
    /\ twin' = TwinStep(c)

\* await this.settingStore.updateRow(id, value)
InsertUpdateRow(c) ==
    /\ calls[c].pc = "updateRow"
    /\ settingStore' \in
            SettingStoreUpdateRow(settingStore, calls[c].id, calls[c].value)
    /\ calls' = [calls EXCEPT ![c].trace = Append(@, "updateRow"),
                              ![c].pc = "storeUpdated"]
    /\ UNCHANGED <<eventStore, eventCall, issued, gvars>>
    /\ twin' = TwinStep(c)

\* await this.eventStore.store(new SettingUpdatedEvent({createdBy, data: {id}}))
InsertStoreUpdated(c) ==
    /\ calls[c].pc = "storeUpdated"
    /\ eventStore' = EventStoreStore(eventStore,
            SettingUpdatedEvent(calls[c].createdBy, calls[c].id))
    /\ eventCall' = Append(eventCall, c)
    /\ calls' = [calls EXCEPT ![c].trace = Append(@, "store"), ![c].pc = "done"]
    /\ UNCHANGED <<settingStore, issued, gvars>>
    /\ twin' = TwinStep(c)

\* InsertInsert that looks at the row again and updates when it is there now
InsertInsert_Recheck(c) ==
    /\ calls[c].pc = "insert"
    /\ settingStore' =
            SettingStoreInsert(settingStore, calls[c].id, calls[c].value)
    /\ calls' = [calls EXCEPT
            ![c].trace = Append(@, "insert"),
            ![c].pc = IF SettingStoreExists(settingStore, calls[c].id)
                      THEN "storeUpdated" ELSE "storeCreated"]
    /\ UNCHANGED <<eventStore, eventCall, issued, gvars>>
    /\ twin' = TwinStep(c)

\* await this.settingStore.insert(id, value)
InsertInsert(c) ==
    /\ calls[c].pc = "insert"
    /\ settingStore' =
            SettingStoreInsert(settingStore, calls[c].id, calls[c].value)
    /\ calls' = [calls EXCEPT ![c].trace = Append(@, "insert"),
                              ![c].pc = "storeCreated"]
    /\ UNCHANGED <<eventStore, eventCall, issued, gvars>>
    /\ twin' = TwinStep(c)

\* InsertStoreCreated whose event carries the value as well
InsertStoreCreated_WithValue(c) ==
    /\ calls[c].pc = "storeCreated"
    /\ eventStore' = EventStoreStore(eventStore,
            [type |-> "setting-created", createdBy |-> calls[c].createdBy,
             data |-> [id |-> calls[c].id, value |-> calls[c].value]])
    /\ eventCall' = Append(eventCall, c)
    /\ calls' = [calls EXCEPT ![c].trace = Append(@, "store"), ![c].pc = "done"]
    /\ UNCHANGED <<settingStore, issued, gvars>>
    /\ twin' = TwinStep(c)

\* InsertStoreCreated with the event of the other branch
InsertStoreCreated_AsUpdated(c) ==
    /\ calls[c].pc = "storeCreated"
    /\ eventStore' = EventStoreStore(eventStore,
            SettingUpdatedEvent(calls[c].createdBy, calls[c].id))
    /\ eventCall' = Append(eventCall, c)
    /\ calls' = [calls EXCEPT ![c].trace = Append(@, "store"), ![c].pc = "done"]
    /\ UNCHANGED <<settingStore, issued, gvars>>
    /\ twin' = TwinStep(c)

\* await this.eventStore.store(new SettingCreatedEvent({createdBy, data: {id}}))
InsertStoreCreated(c) ==
    /\ calls[c].pc = "storeCreated"
    /\ eventStore' = EventStoreStore(eventStore,
            SettingCreatedEvent(calls[c].createdBy, calls[c].id))
    /\ eventCall' = Append(eventCall, c)
    /\ calls' = [calls EXCEPT ![c].trace = Append(@, "store"), ![c].pc = "done"]
    /\ UNCHANGED <<settingStore, issued, gvars>>
    /\ twin' = TwinStep(c)

\* delete(id, createdBy) up to its first await
DeleteCall(c, id, createdBy) ==
    /\ c = issued + 1
    /\ c <= MaxCalls
    /\ issued' = c
    /\ calls' = [calls EXCEPT ![c] =
            Issue("delete", id, Absent, createdBy, "delete")]
    /\ UNCHANGED <<settingStore, eventStore, eventCall, gvars>>
    /\ twin' = TwinIssue(c, "delete")

\* DeleteDelete that returns early when the key does not exist
DeleteDelete_IfExists(c) ==
    /\ calls[c].pc = "delete"
    /\ settingStore' = SettingStoreDelete(settingStore, calls[c].id)
    /\ calls' = [calls EXCEPT
            ![c].trace = Append(@, "delete"),
            ![c].pc = IF SettingStoreExists(settingStore, calls[c].id)
                      THEN "storeDeleted" ELSE "done"]
    /\ UNCHANGED <<eventStore, eventCall, issued, gvars>>
    /\ twin' = TwinStep(c)

\* await this.settingStore.delete(id)
DeleteDelete(c) ==
    /\ calls[c].pc = "delete"
    /\ settingStore' = SettingStoreDelete(settingStore, calls[c].id)
    /\ calls' = [calls EXCEPT ![c].trace = Append(@, "delete"),
                              ![c].pc = "storeDeleted"]
    /\ UNCHANGED <<eventStore, eventCall, issued, gvars>>
    /\ twin' = TwinStep(c)

\* await this.eventStore.store(new SettingDeletedEvent({createdBy, data: {id}}))
DeleteStoreDeleted(c) ==
    /\ calls[c].pc = "storeDeleted"
    /\ eventStore' = EventStoreStore(eventStore,
            SettingDeletedEvent(calls[c].createdBy, calls[c].id))
    /\ eventCall' = Append(eventCall, c)
    /\ calls' = [calls EXCEPT ![c].trace = Append(@, "store"), ![c].pc = "done"]
    /\ UNCHANGED <<settingStore, issued, gvars>>
    /\ twin' = TwinStep(c)

\* Reject that stores the event of an insert all the same (a finally block)
Reject_StillEmits(c) ==
    /\ Pending(c)
    /\ calls' = [calls EXCEPT
            ![c].trace = Append(@, IF calls[c].pc \in
                    {"storeUpdated", "storeCreated", "storeDeleted"}
                    THEN "store!" ELSE calls[c].pc \o "!"),
            ![c].pc = "failed",
            ![c].error = PersistenceFailure]
    /\ IF calls[c].pc \in {"insert", "updateRow"}
       THEN /\ eventStore' = EventStoreStore(eventStore,
                    SettingCreatedEvent(calls[c].createdBy, calls[c].id))
            /\ eventCall' = Append(eventCall, c)
       ELSE UNCHANGED <<eventStore, eventCall>>
    /\ UNCHANGED <<settingStore, issued, gvars>>
    /\ twin' = TwinReject(c)

\* Reject that undoes the write when the event could not be stored
Reject_RollsBack(c) ==
    /\ Pending(c)
    /\ calls' = [calls EXCEPT
            ![c].trace = Append(@, IF calls[c].pc \in
                    {"storeUpdated", "storeCreated", "storeDeleted"}
                    THEN "store!" ELSE calls[c].pc \o "!"),
            ![c].pc = "failed",
            ![c].error = PersistenceFailure]
    /\ settingStore' =
            IF calls[c].pc \in {"storeUpdated", "storeCreated", "storeDeleted"}
            THEN [settingStore EXCEPT ![calls[c].id] = calls[c].atIssue]
            ELSE settingStore
    /\ UNCHANGED <<eventStore, eventCall, issued, gvars>>
    /\ twin' = TwinReject(c)

\* the awaited SettingStore / EventStore call rejects: nothing is caught, the
\* rejection leaves insert / delete / get at once
Reject(c) ==
    /\ Pending(c)
    /\ calls' = [calls EXCEPT
            ![c].trace = Append(@, IF calls[c].pc \in
                    {"storeUpdated", "storeCreated", "storeDeleted"}
                    THEN "store!" ELSE calls[c].pc \o "!"),
            ![c].pc = "failed",
            ![c].error = PersistenceFailure]
    /\ UNCHANGED <<settingStore, eventStore, eventCall, issued, gvars>>
    /\ twin' = TwinReject(c)


\* ===================================================== ProxyController
Conns == {"c1", "c2"}
QueryAddresses == {Absent, "", "9.9.9.9"}
QueryEnvironments == {Absent, "spoofed"}
Bodies == {"b1", "b2"}
ToggleLists == {<<>>, <<"t1">>}
Origins == {Absent, "https://admin.example", "https://evil.example"}
OriginLists == {<<>>, <<"https://app.example", "https://admin.example">>}

Queries == [remoteAddress : QueryAddresses, environment : QueryEnvironments]
SomeQueries == {[remoteAddress |-> Absent, environment |-> Absent],
                [remoteAddress |-> "9.9.9.9", environment |-> "spoofed"]}

\* each connection has its own source address and its own authenticated ApiUser
ConnIp(c) == IF c = "c1" THEN "1.2.3.4" ELSE "5.6.7.8"
ConnUser(c) == [environment |-> IF c = "c1" THEN "prod" ELSE "dev"]

\* this.route({method, path, handler, permission: NONE}), in declaration order
RouteTable ==
    << [method |-> "get",  path |-> "", handler |-> "getProxyFeatures"],
       [method |-> "post", path |-> "", handler |-> "endpointNotImplemented"],
       [method |-> "get",  path |-> "/client/features",
                           handler |-> "endpointNotImplemented"],
       [method |-> "post", path |-> "/client/metrics",
                           handler |-> "registerProxyMetrics"],
       [method |-> "post", path |-> "/client/register",
                           handler |-> "registerProxyClient"],
       [method |-> "get",  path |-> "/health",
                           handler |-> "endpointNotImplemented"],
       [method |-> "get",  path |-> "/internal-backstage/prometheus",
                           handler |-> "endpointNotImplemented"] >>

Endpoints == {[method |-> RouteTable[i].method, path |-> RouteTable[i].path] :
                    i \in 1..Len(RouteTable)}

\* the handler of the first route of the table that matches
Handler(table, method, path) ==
    LET hits == {i \in 1..Len(table) :
                    table[i].method = method /\ table[i].path = path}
    IN  IF hits = {} THEN Absent
        ELSE table[CHOOSE i \in hits : \A j \in hits : i <= j].handler

\* a ?? b in the place of a || b
Or_Nullish(a, b) == IF a # Absent THEN a ELSE b

\* a || b
Truthy(v) == v \notin {Absent, ""}
Or(a, b) == IF Truthy(a) THEN a ELSE b

\* res.status(code).json(body)
StatusJson(code, body) == [status |-> code, body |-> body]

\* res.sendStatus(code): the status text is the body
StatusMessage(code) ==
    IF code = 200 THEN "OK"
    ELSE IF code = 405 THEN "Method Not Allowed" ELSE "Error"

SendStatus(code) == [status |-> code, body |-> StatusMessage(code)]

\* openApiService.respondWithValidation(status, res, schema, data)
RespondWithValidation(code, data) == StatusJson(code, data)

NoResponse == [status |-> 0, body |-> Absent]

\* the promise of a proxyService call: awaited, resolved with a value, rejected
Awaited == [state |-> "awaited", value |-> Absent]
Resolved(value) == [state |-> "resolved", value |-> value]
Rejected == [state |-> "rejected", value |-> Absent]

\* createContext(query) of ../../proxy/create-context: a context object
\* carrying the pairs of the query
CreateContext(query) ==
    [remoteAddress |-> query.remoteAddress, environment |-> query.environment]

\* createContext that lets a query environment win over the user's
ProxyControllerCreateContext_KeepEnvironment(req) ==
    LET query1 == [req.query EXCEPT
                        !.remoteAddress =
                            IF req.query.remoteAddress \notin {Absent, ""}
                            THEN req.query.remoteAddress ELSE req.ip]
        query2 == [query1 EXCEPT !.environment =
                        IF req.query.environment \notin {Absent, ""}
                        THEN req.query.environment ELSE req.user.environment]
    IN  [req |-> [req EXCEPT !.query = query2],
         context |-> [remoteAddress |-> query2.remoteAddress,
                      environment |-> query2.environment]]

\* ProxyController.createContext(req): the request afterwards and the context
ProxyControllerCreateContext(req) ==
    LET query1 == [req.query EXCEPT
                        !.remoteAddress = Or(req.query.remoteAddress, req.ip)]
        query2 == [query1 EXCEPT !.environment = req.user.environment]
    IN  [req |-> [req EXCEPT !.query = query2], context |-> CreateContext(query2)]

\* corsOriginMiddleware(allowedOrigins) of ../../middleware: the
\* Access-Control-Allow-Origin header it sets for a request, the request's
\* origin when the list holds it and none otherwise
CorsOriginMiddleware(allowedOrigins, req) ==
    IF \E i \in 1..Len(allowedOrigins) : allowedOrigins[i] = req.origin
    THEN req.origin ELSE Absent

\* the constructor installing the middleware whatever the list holds
ProxyControllerMiddleware_Always(origins) ==
    << [fn |-> "corsOriginMiddleware", allowedOrigins |-> origins] >>

\* if (config.frontendApiOrigins.length > 0) this.app.use(corsOriginMiddleware(...))
ProxyControllerMiddleware(origins) ==
    IF Len(origins) > 0
    THEN << [fn |-> "corsOriginMiddleware", allowedOrigins |-> origins] >>
    ELSE <<>>

\* the allow header on the response when the request reaches its handler:
\* the middleware of this.app runs before the handler of any route
AllowOrigin(req) ==
    IF Len(middleware) = 0 THEN Absent
    ELSE CorsOriginMiddleware(middleware[1].allowedOrigins, req)

NoRequest ==
    [method |-> Absent, path |-> Absent, query |-> Absent, body |-> Absent,
     origin |-> Absent, ip |-> Absent, user |-> Absent]

Idle ==
    [pc |-> "idle", allowOrigin |-> Absent, received |-> NoRequest,
     req |-> NoRequest,
     res |-> NoResponse, svc |-> <<>>, handler |-> Absent]

\* the connection has no request in flight
Free(c) == requests[c].pc \in {"idle", "responded", "error"}

Dispatched(c, req, handler) ==
    /\ Free(c)
    /\ Handler(routes, req.method, req.path) = handler

\* endpointNotImplemented answering 404
EndpointNotImplemented_NotFound(c, req) ==
    /\ Free(c)
    /\ Handler(routes, req.method, req.path) = "endpointNotImplemented"
    /\ requests' = [requests EXCEPT ![c] =
            [pc |-> "responded", allowOrigin |-> AllowOrigin(req),
             received |-> req, req |-> req,
             res |-> [status |-> 404, body |-> [message |->
                        "The frontend API does not support this endpoint."]],
             svc |-> <<>>, handler |-> "endpointNotImplemented"]]
    /\ UNCHANGED <<cvars, svars>>

\* ProxyController.endpointNotImplemented(req, res)
EndpointNotImplemented(c, req) ==
    /\ Dispatched(c, req, "endpointNotImplemented")
    /\ requests' = [requests EXCEPT ![c] =
            [pc |-> "responded", allowOrigin |-> AllowOrigin(req),
             received |-> req, req |-> req,
             res |-> StatusJson(405, [message |->
                        "The frontend API does not support this endpoint."]),
             svc |-> <<>>, handler |-> "endpointNotImplemented"]]
    /\ UNCHANGED <<cvars, svars>>

\* getProxyFeatures that keeps the context in a field of the controller and
\* reuses it while another GET "" is in flight
GetProxyFeatures_SharedContext(c, req) ==
    /\ Dispatched(c, req, "getProxyFeatures")
    /\ LET cc == ProxyControllerCreateContext(req)
           others == {d \in Conns \ {c} : requests[d].pc = "getProxyFeatures"}
           context == IF others = {} THEN cc.context
                      ELSE requests[CHOOSE d \in others : TRUE].svc[1].context
       IN
       requests' = [requests EXCEPT ![c] =
            [pc |-> "getProxyFeatures", allowOrigin |-> AllowOrigin(req),
             received |-> req, req |-> cc.req,
             res |-> NoResponse,
             svc |-> << [fn |-> "getProxyFeatures", user |-> req.user,
                         context |-> context, returned |-> Awaited] >>,
             handler |-> "getProxyFeatures"]]
    /\ UNCHANGED <<cvars, svars>>

\* getProxyFeatures(req, res) up to its await
GetProxyFeatures(c, req) ==
    /\ Dispatched(c, req, "getProxyFeatures")
    /\ LET cc == ProxyControllerCreateContext(req) IN
       requests' = [requests EXCEPT ![c] =
            [pc |-> "getProxyFeatures", allowOrigin |-> AllowOrigin(req),
             received |-> req, req |-> cc.req,
             res |-> NoResponse,
             svc |-> << [fn |-> "getProxyFeatures", user |-> req.user,
                         context |-> cc.context, returned |-> Awaited] >>,
             handler |-> "getProxyFeatures"]]
    /\ UNCHANGED <<cvars, svars>>

\* GetProxyFeaturesRespond that answers with an empty list of toggles
GetProxyFeaturesRespond_Empty(c, toggles) ==
    /\ requests[c].pc = "getProxyFeatures"
    /\ requests' = [requests EXCEPT
            ![c].pc = "responded",
            ![c].svc[1].returned = Resolved(toggles),
            ![c].res = RespondWithValidation(200, [toggles |-> <<>>])]
    /\ UNCHANGED <<cvars, svars>>

\* proxyService.getProxyFeatures resolves with toggles; respondWithValidation
GetProxyFeaturesRespond(c, toggles) ==
    /\ requests[c].pc = "getProxyFeatures"
    /\ requests' = [requests EXCEPT
            ![c].pc = "responded",
            ![c].svc[1].returned = Resolved(toggles),
            ![c].res = RespondWithValidation(200, [toggles |-> toggles])]
    /\ UNCHANGED <<cvars, svars>>

\* registerProxyMetrics that does not await the service before it answers
RegisterProxyMetrics_NoAwait(c, req) ==
    /\ Dispatched(c, req, "registerProxyMetrics")
    /\ requests' = [requests EXCEPT ![c] =
            [pc |-> "responded", allowOrigin |-> AllowOrigin(req),
             received |-> req, req |-> req,
             res |-> SendStatus(200),
             svc |-> << [fn |-> "registerProxyMetrics", user |-> req.user,
                         body |-> req.body, ip |-> req.ip,
                         returned |-> Awaited] >>,
             handler |-> "registerProxyMetrics"]]
    /\ UNCHANGED <<cvars, svars>>

\* registerProxyMetrics(req, res) up to its await
RegisterProxyMetrics(c, req) ==
    /\ Dispatched(c, req, "registerProxyMetrics")
    /\ requests' = [requests EXCEPT ![c] =
            [pc |-> "registerProxyMetrics", allowOrigin |-> AllowOrigin(req),
             received |-> req, req |-> req,
             res |-> NoResponse,
             svc |-> << [fn |-> "registerProxyMetrics", user |-> req.user,
                         body |-> req.body, ip |-> req.ip,
                         returned |-> Awaited] >>,
             handler |-> "registerProxyMetrics"]]
    /\ UNCHANGED <<cvars, svars>>

\* proxyService.registerProxyMetrics resolves; res.sendStatus(200)
RegisterProxyMetricsRespond(c) ==
    /\ requests[c].pc = "registerProxyMetrics"
    /\ requests' = [requests EXCEPT ![c].pc = "responded",
                                    ![c].svc[1].returned = Resolved(Absent),
                                    ![c].res = SendStatus(200)]
    /\ UNCHANGED <<cvars, svars>>

\* the awaited proxyService call rejects: the handler sends nothing
ProxyServiceReject(c) ==
    /\ requests[c].pc \in {"getProxyFeatures", "registerProxyMetrics"}
    /\ requests' = [requests EXCEPT ![c].pc = "error",
                                    ![c].svc[1].returned = Rejected]
    /\ UNCHANGED <<cvars, svars>>

\* ProxyController.registerProxyClient(req, res)
RegisterProxyClient(c, req) ==
    /\ Dispatched(c, req, "registerProxyClient")
    /\ requests' = [requests EXCEPT ![c] =
            [pc |-> "responded", allowOrigin |-> AllowOrigin(req),
             received |-> req, req |-> req,
             res |-> SendStatus(200), svc |-> <<>>,
             handler |-> "registerProxyClient"]]
    /\ UNCHANGED <<cvars, svars>>

\* the requests that reach the controller
Requests(c, E, Q, B, O) ==
    {[method |-> e.method, path |-> e.path, query |-> q,
      body |-> IF e.method = "post" THEN b ELSE Absent,
      origin |-> o, ip |-> ConnIp(c), user |-> ConnUser(c)] :
        e \in E, q \in Q, b \in B, o \in O}

\* new ProxyController(config, services) with config.frontendApiOrigins = origins
ProxyControllerInit(origins) ==
    /\ frontendApiOrigins = origins
    /\ middleware = ProxyControllerMiddleware(origins)
    /\ routes = RouteTable
    /\ requests = [c \in Conns |-> Idle]

\* the controller of a config without frontendApiOrigins
GatewayInit == ProxyControllerInit(<<>>)

GatewayStep(E, Q, B, O) ==
    \/ \E c \in Conns : \E req \in Requests(c, E, Q, B, O) :
            EndpointNotImplemented(c, req)
    \/ \E c \in Conns : \E req \in Requests(c, E, Q, B, O) :
            GetProxyFeatures(c, req)
    \/ \E c \in Conns, toggles \in ToggleLists : GetProxyFeaturesRespond(c, toggles)
    \/ \E c \in Conns : \E req \in Requests(c, E, Q, B, O) :
            RegisterProxyMetrics(c, req)
    \/ \E c \in Conns : RegisterProxyMetricsRespond(c)
    \/ \E c \in Conns : ProxyServiceReject(c)
    \/ \E c \in Conns : \E req \in Requests(c, E, Q, B, O) :
            RegisterProxyClient(c, req)

\* requests that carry no Origin header
GatewayNext == GatewayStep(Endpoints, Queries, Bodies, {Absent})

\* requests of every origin
ConfiguredNext == GatewayStep(Endpoints, SomeQueries, {"b1"}, Origins)

\* the SettingStore outlives the service: it starts empty or holding a row
InitStores == {[k \in Keys |-> Absent],
               [k \in Keys |-> IF k = "k1" THEN "v1" ELSE Absent]}

SettingInit ==
    /\ settingStore \in InitStores
    /\ eventStore = <<>>
    /\ eventCall = <<>>
    /\ calls = [c \in CallIds |-> Unissued]
    /\ issued = 0
    /\ twin = [store |-> [k \in Keys |-> TwinValue(settingStore[k])],
               events |-> <<>>,
               pc |-> [c \in CallIds |-> "unissued"]]

SettingNext ==
    \/ \E c \in CallIds, id \in Keys : GetCall(c, id)
    \/ \E c \in CallIds, id \in Keys, value \in Values, createdBy \in Principals :
            InsertCall(c, id, value, createdBy)
    \/ \E c \in CallIds, id \in Keys, createdBy \in Principals :
            DeleteCall(c, id, createdBy)
    \/ \E c \in CallIds : Get(c)
    \/ \E c \in CallIds : InsertExists(c)
    \/ \E c \in CallIds : InsertUpdateRow(c)
    \/ \E c \in CallIds : InsertStoreUpdated(c)
    \/ \E c \in CallIds : InsertInsert(c)
    \/ \E c \in CallIds : InsertStoreCreated(c)
    \/ \E c \in CallIds : DeleteDelete(c)
    \/ \E c \in CallIds : DeleteStoreDeleted(c)
    \/ \E c \in CallIds : Reject(c)

Init == SettingInit /\ GatewayInit

\* the SettingService over a SettingStore that holds a row for one key and
\* none for the other
SeededInit == Init /\ settingStore["k1"] # Absent

\* the SettingService alone
SettingSpec == SeededInit /\ [][SettingNext]_vars

\* the ProxyController alone
GatewaySpec == Init /\ [][GatewayNext]_vars

\* the SettingService over a SettingStore that starts without rows
EmptyInit == Init /\ settingStore = [k \in Keys |-> Absent]

EmptyStoreSpec == EmptyInit /\ [][SettingNext]_vars

\* the ProxyController of every config, over a SettingStore without rows
ConfiguredInit ==
    /\ SettingInit
    /\ settingStore = [k \in Keys |-> Absent]
    /\ \E origins \in OriginLists : ProxyControllerInit(origins)

ConfiguredSpec == ConfiguredInit /\ [][ConfiguredNext]_vars

Next == SettingNext \/ GatewayNext \/ ConfiguredNext

Spec == Init /\ [][Next]_vars

TypeOK == issued \in 0..MaxCalls /\ Len(eventStore) = Len(eventCall)

\* ------------------------------------------------------ SettingService
\* positions in the EventStore of the events stored by call c
EventsOf(c) == {i \in 1..Len(eventStore) : eventCall[i] = c}

Writer(c) == calls[c].op \in {"insert", "delete"}

\* calls a and b wrote to the same key and ran at the same time
Overlap(a, b) ==
    /\ a # b /\ Writer(a) /\ Writer(b)
    /\ (a \in calls[b].conc \/ b \in calls[a].conc)

\* no other insert / delete on the key of c ran while c ran
Alone(c) == \A d \in CallIds : ~Overlap(c, d)

\* no insert / delete on the key of c has been issued after c
Latest(c) ==
    \A d \in CallIds : (d > c /\ calls[d].id = calls[c].id) => ~Writer(d)

\* the get calls on the key of c issued after c had completed
GetsAfter(c) ==
    {g \in CallIds : /\ g > c /\ calls[g].op = "get"
                      /\ calls[g].id = calls[c].id /\ c \notin calls[g].conc}

Completed(c, op) == calls[c].op = op /\ calls[c].pc = "done"

OneEvent(c, event) ==
    \E i \in 1..Len(eventStore) : EventsOf(c) = {i} /\ eventStore[i] = event

\* C1: an insert of a key that is absent, run to completion without another
\* write to that key running beside it, has stored exactly one event, the
\* Created event of its key and principal, and a get of the key afterwards
\* returns the inserted value.
C1_InsertAbsentCreates ==
    \A c \in CallIds :
        (Completed(c, "insert") /\ calls[c].atIssue = Absent /\ Alone(c)) =>
            /\ OneEvent(c, SettingCreatedEvent(calls[c].createdBy, calls[c].id))
            /\ Latest(c) =>
                /\ SettingStoreGet(settingStore, calls[c].id) = calls[c].value
                /\ \A g \in GetsAfter(c) :
                        /\ calls[g].error # NotFound
                        /\ calls[g].pc = "done" => calls[g].result = calls[c].value

C1_Witness ==
    \E c \in CallIds :
        /\ Completed(c, "insert") /\ calls[c].atIssue = Absent /\ Alone(c)
        /\ \E g \in GetsAfter(c) : calls[g].pc = "done"

\* C2: an insert of a key that is present with value v1, run to completion
\* alone, has stored exactly one event, the Updated event of its key and
\* principal, has written with updateRow and not with insert, and a get of
\* the key afterwards returns the new value.
C2_InsertPresentUpdates ==
    \A c \in CallIds :
        (Completed(c, "insert") /\ calls[c].atIssue # Absent /\ Alone(c)) =>
            /\ OneEvent(c, SettingUpdatedEvent(calls[c].createdBy, calls[c].id))
            /\ calls[c].trace = <<"exists", "updateRow", "store">>
            /\ Latest(c) =>
                /\ SettingStoreGet(settingStore, calls[c].id) = calls[c].value
                /\ \A g \in GetsAfter(c) :
                        /\ calls[g].error # NotFound
                        /\ calls[g].pc = "done" => calls[g].result = calls[c].value

C2_Witness ==
    \E c \in CallIds :
        /\ Completed(c, "insert") /\ Alone(c)
        /\ calls[c].atIssue = "v1" /\ calls[c].value = "v2"
        /\ \E g \in GetsAfter(c) : calls[g].pc = "done"

\* C3: a delete run to completion has stored exactly one event, the Deleted
\* event of its key and principal, whether or not the key was present; it
\* called the store's delete without an existence check, and once it has run
\* alone the key is absent.
C3_DeleteAlwaysDeleted ==
    \A c \in CallIds :
        Completed(c, "delete") =>
            /\ OneEvent(c, SettingDeletedEvent(calls[c].createdBy, calls[c].id))
            /\ calls[c].trace = <<"delete", "store">>
            /\ (Alone(c) /\ Latest(c)) =>
                    ~SettingStoreExists(settingStore, calls[c].id)

C3_Witness ==
    \E c, d \in CallIds :
        /\ Completed(c, "delete") /\ calls[c].atIssue = Absent
        /\ Completed(d, "delete") /\ calls[d].atIssue # Absent

WriteOps == {"updateRow", "insert", "delete"}

Wrote(c) == \E i \in 1..Len(calls[c].trace) : calls[c].trace[i] \in WriteOps

WriteFailed(c) ==
    /\ calls[c].pc = "failed"
    /\ calls[c].trace # <<>>
    /\ calls[c].trace[Len(calls[c].trace)] \in
            {"exists!", "updateRow!", "insert!", "delete!"}

\* C4: a call has no event in the EventStore while its SettingStore write has
\* not completed, and a call whose write failed ends with the error and never
\* has an event.
C4_EventAfterWrite ==
    \A c \in CallIds :
        /\ ~Wrote(c) => EventsOf(c) = {}
        /\ WriteFailed(c) =>
                (calls[c].error = PersistenceFailure /\ EventsOf(c) = {})
        /\ EventsOf(c) # {} => calls[c].pc = "done"

C4_Witness ==
    \E c, d \in CallIds :
        /\ WriteFailed(c) /\ Writer(c) /\ ~Wrote(c)
        /\ Writer(d) /\ Wrote(d) /\ EventsOf(d) # {}

Expected(c) == IF calls[c].op = "insert" THEN calls[c].value ELSE Absent

Writes(k) == {c \in CallIds : Writer(c) /\ calls[c].id = k /\ Wrote(c)}

Last(S) == CHOOSE c \in S : \A d \in S : d <= c

Quiet(k) == \A c \in CallIds : (Writer(c) /\ calls[c].id = k) => ~Pending(c)

\* C5 as stated: the events of one key are stored in the order their calls
\* were issued, also when the calls overlap, and once no write to the key is
\* running its content is that of the last issued write that succeeded.
C5_IssueOrder ==
    /\ \A i, j \in 1..Len(eventStore) :
            (i < j /\ eventStore[i].data.id = eventStore[j].data.id) =>
                eventCall[i] < eventCall[j]
    /\ \A k \in Keys :
            (Quiet(k) /\ Writes(k) # {}) =>
                SettingStoreGet(settingStore, k) = Expected(Last(Writes(k)))

Serial(k) ==
    \A a, b \in CallIds : (calls[a].id = k /\ calls[b].id = k) => ~Overlap(a, b)

\* C5 amended: of two calls on one key where the first had ended before the
\* second was issued, the first one's event is stored before the second
\* one's; and when no two writes to a key ran at the same time, the key's
\* content once they have ended is that of the last issued write that
\* succeeded.
C5_SerialOrder ==
    /\ \A i, j \in 1..Len(eventStore) :
            (/\ eventStore[i].data.id = eventStore[j].data.id
             /\ eventCall[i] < eventCall[j]
             /\ eventCall[i] \notin calls[eventCall[j]].conc) => i < j
    /\ \A k \in Keys :
            (Quiet(k) /\ Serial(k) /\ Writes(k) # {}) =>
                SettingStoreGet(settingStore, k) = Expected(Last(Writes(k)))

C5_Witness ==
    \E a, b \in CallIds :
        /\ a < b /\ calls[a].id = calls[b].id
        /\ Completed(a, "delete") /\ Completed(b, "insert")
        /\ ~Overlap(a, b)
        /\ EventsOf(a) # {} /\ EventsOf(b) # {}

\* ----------------------------------------------------- ProxyController
Handled(c) == requests[c].pc # "idle"

FeatureCalls(c) ==
    {i \in 1..Len(requests[c].svc) : requests[c].svc[i].fn = "getProxyFeatures"}

\* C6: the environment of the context handed to the evaluation service is
\* the environment of the request's ApiUser, whatever the query holds.
C6_EnvironmentFromUser ==
    \A c \in Conns : \A i \in FeatureCalls(c) :
        requests[c].svc[i].context.environment =
            requests[c].received.user.environment

C6_Witness ==
    \E c \in Conns :
        /\ FeatureCalls(c) # {}
        /\ requests[c].received.query.environment = "spoofed"

\* C7: the remoteAddress of the context is the query's remoteAddress when
\* that is present and not the empty string, and req.ip otherwise.
C7_RemoteAddress ==
    \A c \in Conns : \A i \in FeatureCalls(c) :
        LET given == requests[c].received.query.remoteAddress IN
        requests[c].svc[i].context.remoteAddress =
            IF given # Absent /\ given # ""
            THEN given ELSE requests[c].received.ip

C7_Witness ==
    \E c, d \in Conns :
        /\ FeatureCalls(c) # {} /\ FeatureCalls(d) # {}
        /\ requests[c].received.query.remoteAddress = ""
        /\ requests[d].received.query.remoteAddress = "9.9.9.9"

\* C8: the query of the request is, after the context was built, what it
\* was when the request arrived.
C8_QueryNotMutated ==
    \A c \in Conns :
        Handled(c) => requests[c].req.query = requests[c].received.query

StubEndpoints ==
    {[method |-> "post", path |-> ""],
     [method |-> "get", path |-> "/client/features"],
     [method |-> "get", path |-> "/health"],
     [method |-> "get", path |-> "/internal-backstage/prometheus"]}

Endpoint(req) == [method |-> req.method, path |-> req.path]

\* C9: POST "", GET /client/features, GET /health and
\* GET /internal-backstage/prometheus answer 405 with a non-empty message
\* for every body and query, and call no service.
C9_StubsAnswer405 ==
    \A c \in Conns :
        (Handled(c) /\ Endpoint(requests[c].received) \in StubEndpoints) =>
            /\ requests[c].pc = "responded"
            /\ requests[c].res.status = 405
            /\ requests[c].res.body.message # ""
            /\ requests[c].svc = <<>>

C9_Witness ==
    \E c, d \in Conns :
        /\ Handled(c) /\ Handled(d)
        /\ Endpoint(requests[c].received) = [method |-> "post", path |-> ""]
        /\ requests[c].received.body = "b2"
        /\ Endpoint(requests[d].received) = [method |-> "get", path |-> "/health"]
        /\ requests[d].received.query.environment = "spoofed"

\* C10: POST /client/register answers 200 with an empty body, calls no
\* service, writes no setting and stores no event.
C10_RegisterEmptyBody ==
    \A c \in Conns :
        (Handled(c) /\ Endpoint(requests[c].received) =
                [method |-> "post", path |-> "/client/register"]) =>
            /\ requests[c].res.status = 200
            /\ requests[c].res.body \in {Absent, ""}
            /\ requests[c].svc = <<>>
            /\ settingStore \in InitStores
            /\ eventStore = <<>>

StoreFailed(c) ==
    /\ calls[c].pc = "failed"
    /\ calls[c].trace # <<>>
    /\ calls[c].trace[Len(calls[c].trace)] = "store!"

\* C12: when eventStore.store rejects after the SettingStore write of the
\* same call succeeded, the call ends with that error, the write stays (the
\* new value, or the key deleted), and the service has made one attempt to
\* store the event and no further store call.
C12_NoRollbackNoRetry ==
    \A c \in CallIds :
        StoreFailed(c) =>
            /\ calls[c].error = PersistenceFailure
            /\ EventsOf(c) = {}
            /\ calls[c].trace \in {<<"exists", "updateRow", "store!">>,
                                   <<"exists", "insert", "store!">>,
                                   <<"delete", "store!">>}
            /\ (Alone(c) /\ Latest(c)) =>
                    SettingStoreGet(settingStore, calls[c].id) = Expected(c)

C12_Witness ==
    \E c, d \in CallIds :
        /\ StoreFailed(c) /\ calls[c].op = "insert" /\ Alone(c) /\ Latest(c)
        /\ calls[c].atIssue # calls[c].value
        /\ StoreFailed(d) /\ calls[d].op = "delete" /\ Alone(d) /\ Latest(d)
        /\ calls[d].atIssue # Absent

SawAbsent(c) == Completed(c, "insert") /\ calls[c].exists = FALSE

\* C16: the existence check and the write of insert are separate steps, so
\* two inserts of one key that both saw the key absent both call the store's
\* insert and both store a Created event; the interleaving in which they run
\* side by side and the two Created events follow each other with no Deleted
\* event of the key between them is reachable (C16_Witness).
C16_BothCreated ==
    \A a, b \in CallIds :
        (a # b /\ calls[a].id = calls[b].id /\ SawAbsent(a) /\ SawAbsent(b)) =>
            /\ calls[a].trace = <<"exists", "insert", "store">>
            /\ calls[b].trace = <<"exists", "insert", "store">>
            /\ OneEvent(a, SettingCreatedEvent(calls[a].createdBy, calls[a].id))
            /\ OneEvent(b, SettingCreatedEvent(calls[b].createdBy, calls[b].id))

C16_Witness ==
    \E a, b \in CallIds : \E i, j \in 1..Len(eventStore) :
        /\ a # b /\ calls[a].id = calls[b].id /\ SawAbsent(a) /\ SawAbsent(b)
        /\ Overlap(a, b)
        /\ calls[a].atIssue = Absent /\ calls[b].atIssue = Absent
        /\ i < j /\ eventCall[i] = a /\ eventCall[j] = b
        /\ eventStore[i].type = "setting-created"
        /\ eventStore[j].type = "setting-created"
        /\ \A m \in (i + 1)..(j - 1) :
                eventStore[m].data.id = calls[a].id =>
                    eventStore[m].type # "setting-deleted"

EventsFor(k) == {i \in 1..Len(eventStore) : eventStore[i].data.id = k}

NoFailure(k) ==
    \A c \in CallIds : (Writer(c) /\ calls[c].id = k) => calls[c].pc # "failed"

\* the event of key k stored last before position j, 0 when there is none
Previous(k, j) ==
    LET before == {i \in EventsFor(k) : i < j}
    IN  IF before = {} THEN 0 ELSE CHOOSE i \in before : \A m \in before : m <= i

Kept == {"setting-created", "setting-updated"}

\* C17: from an empty store and an empty event log, while no two inserts or
\* deletes of a key overlap and no store call of them fails, the key has as
\* many events as completed insert / delete calls, it is present exactly when
\* its last event is Created or Updated, and a Created event of it has no
\* Created or Updated event of it directly before.
C17_SerialAudit ==
    \A k \in Keys :
        (Serial(k) /\ NoFailure(k)) =>
            /\ Cardinality(EventsFor(k)) = Cardinality({c \in CallIds :
                    Writer(c) /\ calls[c].id = k /\ calls[c].pc = "done"})
            /\ Quiet(k) =>
                (SettingStoreExists(settingStore, k) <=>
                    /\ EventsFor(k) # {}
                    /\ eventStore[Previous(k, Len(eventStore) + 1)].type \in Kept)
            /\ \A j \in EventsFor(k) :
                    (eventStore[j].type = "setting-created" /\ Previous(k, j) # 0)
                        => eventStore[Previous(k, j)].type = "setting-deleted"

C17_Witness ==
    \E k \in Keys : \E a, b \in CallIds :
        /\ Serial(k) /\ NoFailure(k) /\ Quiet(k)
        /\ a < b /\ calls[a].id = k /\ calls[b].id = k
        /\ Completed(a, "insert") /\ Completed(b, "insert")
        /\ Cardinality(EventsFor(k)) = 2

\* no insert / delete of the key of g ran while get call g ran
Undisturbed(g) ==
    /\ \A d \in calls[g].conc : ~Writer(d)
    /\ \A d \in CallIds : Writer(d) => g \notin calls[d].conc

GetReturns ==
    \A g \in CallIds :
        calls[g].op = "get" =>
            /\ EventsOf(g) = {}
            /\ calls[g].pc = "done" =>
                /\ calls[g].result # Absent /\ calls[g].error = NoError
                /\ Undisturbed(g) => calls[g].result = calls[g].atIssue
            /\ (calls[g].pc = "failed" /\ calls[g].error = NotFound) =>
                /\ calls[g].trace = <<"get">> /\ calls[g].result = Absent
                /\ Undisturbed(g) => calls[g].atIssue = Absent
            /\ (calls[g].pc = "failed" /\ Undisturbed(g)
                    /\ calls[g].atIssue = Absent /\ calls[g].trace = <<"get">>)
                => calls[g].error = NotFound
            /\ (calls[g].pc = "done" /\ Undisturbed(g)) => calls[g].atIssue # Absent

GetStep(g) == calls[g].pc = "get" /\ calls'[g].pc # "get"

\* C19: get(k) returns the value stored for k when k is present and fails
\* with the store's NotFound when k is absent; either way the call stores no
\* event and the step that answers it leaves SettingStore and EventStore as
\* they were.
C19_GetReadsOnly ==
    /\ []GetReturns
    /\ [][\A g \in CallIds :
            GetStep(g) => UNCHANGED <<settingStore, eventStore>>]_vars

C19_Witness ==
    \E g, h \in CallIds :
        /\ calls[g].op = "get" /\ calls[g].pc = "done" /\ calls[g].result = "v1"
        /\ calls[h].op = "get" /\ calls[h].pc = "failed"
        /\ calls[h].error = NotFound

EventKinds == {"setting-created", "setting-updated", "setting-deleted"}

\* C11: a run and its twin, which differ in nothing but the setting values,
\* hold the same events at every step, and every event is made of its kind,
\* the key and the principal of its call and nothing else.
C11_EventsIgnoreValues ==
    /\ twin.events = eventStore
    /\ \A i \in 1..Len(eventStore) :
            /\ DOMAIN eventStore[i] = {"type", "createdBy", "data"}
            /\ DOMAIN eventStore[i].data = {"id"}
            /\ eventStore[i].type \in EventKinds
            /\ eventStore[i].createdBy = calls[eventCall[i]].createdBy
            /\ eventStore[i].data.id = calls[eventCall[i]].id

C11_Witness ==
    /\ Len(eventStore) = 2
    /\ twin.events = eventStore
    /\ \E a, b \in CallIds :
            /\ a # b /\ calls[a].id = calls[b].id
            /\ Completed(a, "insert") /\ Completed(b, "insert")
            /\ calls[a].value # calls[b].value
            /\ twin.store[calls[a].id] # settingStore[calls[a].id]

On(c, method, path) ==
    Handled(c) /\ Endpoint(requests[c].received) = [method |-> method, path |-> path]

\* a response has been sent on connection c
Sent(c) == requests[c].res.status # NoResponse.status

\* C14: POST /client/metrics calls the metrics service exactly once, with
\* the request's ApiUser, its body as received and its source address; the
\* 200 is sent only when that call has resolved, and when the call rejects
\* nothing is sent and the request ends with the error.
C14_MetricsForwarded ==
    \A c \in Conns :
        On(c, "post", "/client/metrics") =>
            LET r == requests[c] IN
            /\ Len(r.svc) = 1
            /\ r.svc[1].fn = "registerProxyMetrics"
            /\ r.svc[1].user = r.received.user
            /\ r.svc[1].body = r.received.body
            /\ r.svc[1].ip = r.received.ip
            /\ Sent(c) =>
                    r.svc[1].returned.state = "resolved" /\ r.res.status = 200
            /\ r.svc[1].returned.state = "resolved" => r.res.status = 200
            /\ r.svc[1].returned.state = "rejected" => r.pc = "error" /\ ~Sent(c)

C14_Witness ==
    \E c, d \in Conns :
        /\ On(c, "post", "/client/metrics") /\ On(d, "post", "/client/metrics")
        /\ requests[c].received.body = "b2" /\ requests[c].res.status = 200
        /\ requests[d].svc[1].returned.state = "rejected"

\* C15: GET "" calls the evaluation service exactly once, with the
\* request's ApiUser and the context built from that request; it answers
\* 200 with exactly the toggles the service resolved with, and when the
\* service rejects nothing is sent and the request ends with the error.
C15_FeaturesFromService ==
    \A c \in Conns :
        On(c, "get", "") =>
            LET r == requests[c] IN
            /\ Len(r.svc) = 1
            /\ r.svc[1].fn = "getProxyFeatures"
            /\ r.svc[1].user = r.received.user
            /\ r.svc[1].context = ProxyControllerCreateContext(r.received).context
            /\ Sent(c) =>
                    /\ r.svc[1].returned.state = "resolved"
                    /\ r.res.status = 200
                    /\ r.res.body.toggles = r.svc[1].returned.value
            /\ r.svc[1].returned.state = "resolved" => r.res.status = 200
            /\ r.svc[1].returned.state = "rejected" => r.pc = "error" /\ ~Sent(c)

C15_Witness ==
    \E c, d \in Conns :
        /\ On(c, "get", "") /\ On(d, "get", "")
        /\ requests[c].res.status = 200
        /\ requests[c].res.body.toggles = <<"t1">>
        /\ requests[c].received.query.remoteAddress = "9.9.9.9"
        /\ requests[d].svc[1].returned.state = "rejected"

Allowed(origin) ==
    \E i \in 1..Len(frontendApiOrigins) : frontendApiOrigins[i] = origin

\* C13: the CORS middleware is installed exactly when frontendApiOrigins is
\* not empty, what is installed never changes after construction, and on
\* every one of the seven routes the response carries an allow header, the
\* request's origin, exactly when that origin is in the list (never, then,
\* with an empty list).
C13_CorsGate ==
    /\ [](Len(middleware) > 0 <=> Len(frontendApiOrigins) > 0)
    /\ [](\A c \in Conns : Handled(c) =>
            requests[c].allowOrigin =
                IF Allowed(requests[c].received.origin)
                THEN requests[c].received.origin ELSE Absent)
    /\ [][middleware' = middleware /\ frontendApiOrigins' = frontendApiOrigins]_vars

C13_Witness ==
    \E c, d \in Conns :
        /\ On(c, "get", "/health") /\ On(d, "get", "")
        /\ requests[c].received.origin = "https://admin.example"
        /\ requests[c].allowOrigin = "https://admin.example"
        /\ requests[d].received.origin = "https://evil.example"
        /\ requests[d].allowOrigin = Absent
        /\ Len(frontendApiOrigins) > 0

\* the context of a request depends on that request alone
OwnContext(c) ==
    \A i \in FeatureCalls(c) :
        LET r == requests[c].received
            context == requests[c].svc[i].context
        IN  /\ r.user = ConnUser(c) /\ r.ip = ConnIp(c)
            /\ context.environment = r.user.environment
            /\ context.remoteAddress =
                    IF r.query.remoteAddress \notin {Absent, ""}
                    THEN r.query.remoteAddress ELSE r.ip

\* a step of one connection leaves every other connection as it was
OneConnection ==
    \A c, d \in Conns :
        (c # d /\ requests'[c] # requests[c]) => requests'[d] = requests[d]

\* C18: whatever the interleaving of the GET "" requests of two ApiUsers,
\* each request's context has the environment of its own ApiUser and the
\* remoteAddress of its own query or source address, no step of one
\* request changes another request, and the route table and
\* frontendApiOrigins stay what the constructor made them.
C18_RequestsIndependent ==
    /\ [](\A c \in Conns : OwnContext(c))
    /\ [](routes = RouteTable)
    /\ [][OneConnection /\ UNCHANGED cvars]_vars

C18_Witness ==
    /\ \A c \in Conns : requests[c].pc = "getProxyFeatures"
    /\ requests["c1"].received.query.remoteAddress = "9.9.9.9"
    /\ requests["c2"].received.query.remoteAddress = Absent
    /\ requests["c1"].svc[1].context # requests["c2"].svc[1].context
    /\ Len(frontendApiOrigins) > 0
====
